---- MODULE Spec2Model ----
(***************************************************************************)
(* A model of benjaminye/option_backtest: the option chain query engine    *)
(* (backtester/options.py), the Leg trade generation and mark-to-market    *)
(* walks (backtester/strategy.py) and the capital-constrained put spread   *)
(* (backtester/pds.py).                                                    *)
(*                                                                         *)
(* Dates are whole days (numpy datetime64[D]) and are modelled as          *)
(* integers; prices, strikes and greeks are integers; a moneyness, which   *)
(* the code computes as a float quotient, is kept as an exact fraction     *)
(* <<numerator, denominator>> and compared by cross-multiplication.        *)
(* A Python dict is a sequence of entries in insertion order.              *)
(***************************************************************************)
EXTENDS Integers, Sequences, FiniteSets, TLC

\* ------------------------------------------------------------------ bounds
\* The most contracts one chain of the chain-query specification holds.
MaxOptions == 3
\* The last calendar day of the calendar resolver's specification.
MaxCalDay == 9
\* The last calendar day of the strategies' specifications: days 0..MaxDay.
MaxDay == 4
\* The most strategy calls made on one Leg or PDS.
MaxCalls == 2
\* The highest level of the price path.
MaxPx == 2

VARIABLES
    chain,      \* options.py OptionChain: the chain add_option builds
    result,     \* the chain the last filter returned, or None
    call,       \* the last OptionChain call: its name, receiver and arguments
    raised,     \* the exception the last call raised, or "none"
    queried,    \* whether a query (a filter, get_option) has been made
    loader,     \* options.py Loader: the quote store the strategies read
    leg,        \* strategy.py Leg: its fields, self.trades included
    pds,        \* pds.py PDS: its fields, self.trades and self.capital included
    ret,        \* the last strategy call: its name and what it returned or raised
    gens,       \* what each run of the trade generation returned, in order
    ncalls,     \* how many strategy calls have been made
    heap        \* the chain objects and the list objects their dicts refer to

chainVars == <<chain, result, call, raised, queried>>

stratVars == <<loader, leg, pds, ret, gens, ncalls>>

\* Python's None where a chain or a contract is expected.
None == [none |-> TRUE]

\* No object allocated.
NoHeap == [chains |-> <<>>, lists |-> <<>>]

\* A local variable: v is evaluated once and named x in F(x). (A LET
\* definition is evaluated anew at every use.)
Bind(v, F(_)) == CHOOSE r \in {F(x) : x \in {v}} : TRUE

\* ------------------------------------------------------------- arithmetic
Abs(x) == IF x < 0 THEN -x ELSE x

\* |a - b| of two fractions, as a fraction with a positive denominator.
FracAbsDiff(a, b) == <<Abs(a[1] * b[2] - b[1] * a[2]), a[2] * b[2]>>

FracEq(a, b) == a[1] * b[2] = b[1] * a[2]

FracLess(a, b) == a[1] * b[2] < b[1] * a[2]

FracLeq(a, b) == a[1] * b[2] <= b[1] * a[2]

\* Python's min() of a non-empty list: the first of the smallest elements.
RECURSIVE FracMin(_)
FracMin(s) ==
    IF Len(s) = 1 THEN s[1]
    ELSE Bind(FracMin(Tail(s)), LAMBDA m : IF FracLeq(s[1], m) THEN s[1] ELSE m)

RECURSIVE IntMin(_)
IntMin(s) ==
    IF Len(s) = 1 THEN s[1]
    ELSE Bind(IntMin(Tail(s)), LAMBDA m : IF s[1] <= m THEN s[1] ELSE m)

\* list.index(x): the first position holding x, 0 when there is none
\* (where Python raises ValueError).
FracIndex(s, x) ==
    IF \E i \in 1..Len(s) : FracEq(s[i], x)
    THEN CHOOSE i \in 1..Len(s) :
             /\ FracEq(s[i], x)
             /\ \A j \in 1..(i - 1) : ~FracEq(s[j], x)
    ELSE 0

IntIndex(s, x) ==
    IF \E i \in 1..Len(s) : s[i] = x
    THEN CHOOSE i \in 1..Len(s) : s[i] = x /\ \A j \in 1..(i - 1) : s[j] # x
    ELSE 0

\* list.pop(i), the list that is left.
RemoveAt(s, i) == [j \in 1..(Len(s) - 1) |-> IF j < i THEN s[j] ELSE s[j + 1]]

\* str.upper() and str.lower() on the strings the model uses.
Upper(s) ==
    CASE s = "amzn" -> "AMZN"
      [] s = "spy" -> "SPY"
      [] s = "put" -> "PUT"
      [] s = "call" -> "CALL"
      [] OTHER -> s

Lower(s) ==
    CASE s = "AMZN" -> "amzn"
      [] s = "SPY" -> "spy"
      [] s = "PUT" -> "put"
      [] s = "CALL" -> "call"
      [] OTHER -> s

\* ------------------------------------------------------------------ Option
\* Option.__init__: the ticker is stored in upper case.
Option(ticker, quote_date, expiration, strike, opt_type, bid, ask, underlying_px, greeks) ==
    [ticker |-> Upper(ticker), quote_date |-> quote_date,
     expiration |-> expiration, strike |-> strike, opt_type |-> opt_type,
     bid |-> bid, ask |-> ask, underlying_px |-> underlying_px,
     greeks |-> greeks]

\* Option.mid: (bid + ask) / 2. The quotes of the model have bid + ask even,
\* so the quotient is exact.
Mid(o) == (o.bid + o.ask) \div 2

Greeks == {"delta", "gamma", "theta", "vega", "rho"}

\* Option.moneyness: underlying / strike for a call, strike / underlying
\* otherwise.
Moneyness(o) ==
    IF o.opt_type = "call" THEN <<o.underlying_px, o.strike>>
    ELSE <<o.strike, o.underlying_px>>

\* ------------------------------------------------------------- OptionChain
\* OptionChain.__init__.
NewChain(ticker, quote_date) ==
    [ticker |-> Upper(ticker), quote_date |-> quote_date, groups |-> <<>>]

\* list(self.chain.keys())
Keys(ch) == [i \in 1..Len(ch.groups) |-> ch.groups[i].expiration]

\* the position of an expiration among the keys, 0 when it is no key
KeyIndex(ch, e) == IntIndex(Keys(ch), e)

\* self.chain[e]
Group(ch, e) == ch.groups[KeyIndex(ch, e)].options

\* OptionChain.add_option: the chain after the call and what it raised.
AddOptionWrongOrder(ch, o) ==
    LET k == KeyIndex(ch, o.expiration)
        grown == IF k = 0
                 THEN Append(ch.groups, [expiration |-> o.expiration, options |-> <<o>>])
                 ELSE [ch.groups EXCEPT ![k].options = Append(@, o)]
    IN  [st |-> IF o.ticker # ch.ticker THEN "TickerMismatchException"
                ELSE IF o.quote_date # ch.quote_date THEN "DateMismatchException"
                ELSE "ok",
         ch |-> [ch EXCEPT !.groups = grown]]

add_option(ch, o) ==
    IF o.ticker # ch.ticker THEN [st |-> "TickerMismatchException", ch |-> ch]
    ELSE IF o.quote_date # ch.quote_date THEN [st |-> "DateMismatchException", ch |-> ch]
    ELSE LET k == KeyIndex(ch, o.expiration)
         IN  [st |-> "ok",
              ch |-> [ch EXCEPT !.groups =
                        IF k = 0
                        THEN Append(@, [expiration |-> o.expiration, options |-> <<o>>])
                        ELSE [@ EXCEPT ![k].options = Append(@, o)]]]

\* for option in options: new_chain.add_option(option); the first exception
\* ends the loop.
RECURSIVE AddAll(_, _)
AddAll(ch, options) ==
    IF options = <<>> THEN [st |-> "ok", ch |-> ch]
    ELSE Bind(add_option(ch, options[1]),
              LAMBDA r : IF r.st # "ok" THEN r ELSE AddAll(r.ch, Tail(options)))

\* [option for sublist in self.chain.values() for option in sublist]
RECURSIVE FlattenGroups(_)
FlattenGroups(groups) ==
    IF groups = <<>> THEN <<>>
    ELSE groups[1].options \o FlattenGroups(Tail(groups))

Flatten(ch) == FlattenGroups(ch.groups)

\* OptionChain.filter_expiry: the group of the expiration nearest to expiry,
\* the first one of equally near.
filter_expiry(ch, expiry) ==
    IF ch.groups = <<>> THEN [st |-> "ValueError", ch |-> None]
    ELSE Bind(Keys(ch), LAMBDA dates_ :
         Bind([i \in 1..Len(dates_) |-> Abs(dates_[i] - expiry)], LAMBDA days_delta :
         Bind(dates_[IntIndex(days_delta, IntMin(days_delta))], LAMBDA match :
              AddAll(NewChain(ch.ticker, ch.quote_date), Group(ch, match)))))

\* OptionChain.filter_dte.
filter_dte(ch, dte) == filter_expiry(ch, ch.quote_date + dte)

\* OptionChain.filter_type.
filter_type(ch, opt_type) ==
    Bind(SelectSeq(Flatten(ch), LAMBDA o : Lower(o.opt_type) = Lower(opt_type)),
         LAMBDA options_list : AddAll(NewChain(ch.ticker, ch.quote_date), options_list))

\* The same loop with the minimum taken again on every round: a sort.
RECURSIVE PopLoopSort(_, _, _, _)
PopLoopSort(option_list, moneyness_delta, target, results) ==
    IF option_list = <<>> THEN results
    ELSE Bind(FracIndex(moneyness_delta, FracMin(moneyness_delta)), LAMBDA i :
              Bind(<<RemoveAt(option_list, i), RemoveAt(moneyness_delta, i),
                     Append(results, option_list[i])>>,
                   LAMBDA t : PopLoopSort(t[1], t[2], target, t[3])))

\* The while loop of filter_moneyness over one group: pop the first option
\* whose distance is `target` until the list is empty or index() raises
\* ValueError. `target` is computed once, before the loop.
RECURSIVE PopLoop(_, _, _, _)
PopLoop(option_list, moneyness_delta, target, results) ==
    IF option_list = <<>> THEN results
    ELSE Bind(FracIndex(moneyness_delta, target), LAMBDA i :
              IF i = 0 THEN results
              ELSE Bind(<<RemoveAt(option_list, i), RemoveAt(moneyness_delta, i),
                          Append(results, option_list[i])>>,
                        LAMBDA t : PopLoop(t[1], t[2], target, t[3])))

\* The body of filter_moneyness's for loop over the groups.
RECURSIVE MoneynessResults(_, _, _)
MoneynessResults(groups, tgt_moneyness, results) ==
    IF groups = <<>> THEN results
    ELSE Bind(groups[1].options, LAMBDA option_list :
         Bind([i \in 1..Len(option_list) |->
                  FracAbsDiff(Moneyness(option_list[i]), tgt_moneyness)],
              LAMBDA moneyness_delta :
         Bind(FracMin(moneyness_delta), LAMBDA target :
         Bind(PopLoop(option_list, moneyness_delta, target, results), LAMBDA results2 :
              MoneynessResults(Tail(groups), tgt_moneyness, results2)))))

\* OptionChain.filter_moneyness.
filter_moneyness(ch, tgt_moneyness) ==
    Bind(MoneynessResults(ch.groups, tgt_moneyness, <<>>),
         LAMBDA results : AddAll(NewChain(ch.ticker, ch.quote_date), results))

\* OptionChain.get_option. `expiry` is [int |-> TRUE, v |-> days] for an
\* integer offset and [int |-> FALSE, v |-> date] for a date.
get_optionExpiryFirst(ch, expiry, opt_type, moneyness) ==
    Bind(filter_type(ch, opt_type), LAMBDA r1 :
    Bind(IF expiry.int THEN filter_dte(r1.ch, expiry.v)
         ELSE filter_expiry(r1.ch, expiry.v), LAMBDA r2 :
         IF r2.st # "ok" THEN [st |-> r2.st, opt |-> None]
         ELSE [st |-> "ok", opt |-> r2.ch.groups[1].options[1]]))

get_option(ch, expiry, opt_type, moneyness) ==
    Bind(filter_type(ch, opt_type), LAMBDA r1 :
    Bind(filter_moneyness(r1.ch, moneyness), LAMBDA r2 :
    Bind(IF expiry.int THEN filter_dte(r2.ch, expiry.v)
         ELSE filter_expiry(r2.ch, expiry.v), LAMBDA r3 :
         IF r3.st # "ok" THEN [st |-> r3.st, opt |-> None]
         ELSE [st |-> "ok", opt |-> r3.ch.groups[1].options[1]])))

\* ------------------------------------------------------------------ Loader
\* The ascending sequence of a set of integers: the rows of the quote file
\* are in date order.
RECURSIVE SortedSeq(_)
SortedSeq(S) ==
    IF S = {} THEN <<>>
    ELSE Bind(CHOOSE x \in S : \A y \in S : x <= y,
              LAMBDA m : Bind(S \ {m}, LAMBDA rest : <<m>> \o SortedSeq(rest)))

Last(s) == s[Len(s)]

\* The quote store holds one ticker. On each of its days it quotes every
\* listed expiration that has not passed, at the strikes 9 and 10 with the
\* underlying at 10, as a call and as a put. The bid follows the day's price
\* level (twice as fast at the strike 10) plus the days left; the ask is two
\* above the bid; every greek is the price level, one more at the strike 10.
StoreTicker == "AMZN"
StoreStrikes == {9, 10}
StoreUnderlyings == {10}

Quote(px, d, e, k, ty) ==
    LET bid == px[d] * (k - 8) + (e - d)
    IN Option(StoreTicker, d, e, k, ty, bid, bid + 2,
              CHOOSE u \in StoreUnderlyings : TRUE,
              [g \in Greeks |-> px[d] + (k - 9)])

RECURSIVE QuoteRows(_, _, _)
QuoteRows(px, d, exps) ==
    IF exps = <<>> THEN <<>>
    ELSE <<Quote(px, d, exps[1], 9, "call"), Quote(px, d, exps[1], 9, "put"),
           Quote(px, d, exps[1], 10, "call"), Quote(px, d, exps[1], 10, "put")>>
         \o QuoteRows(px, d, Tail(exps))

\* Loader.__add_to_chain over the rows of one quote date.
StoreChain(E, px, d) ==
    Bind(QuoteRows(px, d, SortedSeq({e \in E : e >= d})),
         LAMBDA rows : AddAll(NewChain(StoreTicker, d), rows).ch)

\* Loader.load_data: self.data[ticker], a chain for every day that has rows
\* (the days S on which some listed expiration of E has not passed).
Store(S, E, px) ==
    [data |-> [d \in {x \in S : \E e \in E : e >= x} |-> StoreChain(E, px, d)]]

\* loader.data[ticker][quote_date]: KeyError when the store has no chain of
\* that ticker and date.
LoaderData(ld, ticker, d) ==
    IF ticker # StoreTicker \/ d \notin DOMAIN ld.data
    THEN [st |-> "KeyError", ch |-> None]
    ELSE [st |-> "ok", ch |-> ld.data[d]]

\* Loader.list_dates.
list_dates(ld) == SortedSeq(DOMAIN ld.data)

\* utils.find_option_by_desc and Loader.find_option_by_desc.
find_option_by_desc(ld, quote_date, ticker, expiration, opt_type, mny) ==
    Bind(LoaderData(ld, ticker, quote_date), LAMBDA c :
         IF c.st # "ok" THEN [st |-> c.st, opt |-> None]
         ELSE get_option(c.ch, [int |-> FALSE, v |-> expiration], opt_type, mny))

\* The for loop of find_option_exact: the first contract of the group with
\* the target's strike and type, None when the loop ends without one.
RECURSIVE FirstExact(_, _)
FirstExact(options, target_option) ==
    IF options = <<>> THEN None
    ELSE IF options[1].strike = target_option.strike
            /\ options[1].opt_type = target_option.opt_type
         THEN options[1]
         ELSE FirstExact(Tail(options), target_option)

\* utils.find_option_exact and Loader.find_option_exact.
find_option_exact(ld, quote_date, target_option) ==
    Bind(LoaderData(ld, target_option.ticker, quote_date), LAMBDA c :
         IF c.st # "ok" THEN [st |-> c.st, opt |-> None]
         ELSE IF KeyIndex(c.ch, target_option.expiration) = 0
         THEN [st |-> "KeyError", opt |-> None]
         ELSE [st |-> "ok",
               opt |-> FirstExact(Group(c.ch, target_option.expiration), target_option)])

\* --------------------------------------------------------------------- Leg
\* get_date's `return False`: no trading date was resolved. Trading days are
\* never negative.
NoDate == -1

\* Python's sequence[i] for an int i: from the end when i is negative,
\* [ok |-> FALSE] where Python raises IndexError.
PyIndex(seq, i) ==
    IF 0 <= i /\ i < Len(seq) THEN [ok |-> TRUE, v |-> seq[i + 1]]
    ELSE IF -Len(seq) <= i /\ i < 0 THEN [ok |-> TRUE, v |-> seq[Len(seq) + i + 1]]
    ELSE [ok |-> FALSE, v |-> NoDate]

\* Leg.check_date and PDS.check_date: the 0-based position of the date, or
\* False when it is absent. Every caller takes the result as a truth value or
\* as an int, and False is 0 as either, so the absent date is 0 here.
check_date(dates, date) ==
    IF \E i \in 1..Len(dates) : dates[i] = date
    THEN (CHOOSE i \in 1..Len(dates) : dates[i] = date) - 1
    ELSE 0

\* The truth value of an int.
Truthy(x) == x # 0

\* get_date's search window, in days.
SearchWindow == 5

\* The while loop of Leg.get_date, from a given delta.
RECURSIVE GetDateLoop(_, _, _)
GetDateLoop(dates, target_date, delta) ==
    IF ~Truthy(check_date(dates, target_date + delta))
       \/ ~Truthy(check_date(dates, target_date - delta))
    THEN IF delta + 1 > SearchWindow THEN NoDate
         ELSE GetDateLoop(dates, target_date, delta + 1)
    ELSE IF Truthy(check_date(dates, target_date + delta))
         THEN target_date + delta
         ELSE target_date - delta

\* Leg.get_date.
get_date(dates, date, days_delta) == GetDateLoop(dates, date + days_delta, 0)

\* not self.trades: None and the empty list are both false.
NoTrades == [set |-> FALSE, v |-> <<>>]

Falsy(trades) == ~trades.set \/ trades.v = <<>>

\* list(zip(open_dates, close_dates, options)): as long as the shortest.
Zip3(open_dates, close_dates, options) ==
    LET n == IntMin(<<Len(open_dates), Len(close_dates), Len(options)>>)
    IN [i \in 1..n |-> [open |-> open_dates[i], close |-> close_dates[i],
                        option |-> options[i]]]

\* The end of generate_trade_dates, after the while loop.
GenReturn(L, open_dates, close_dates, options) ==
    [st |-> "ok",
     trades |-> Zip3(IF L.open_frequency_d.roll
                     THEN SubSeq(open_dates, 1, Len(open_dates) - 1)
                     ELSE open_dates,
                     close_dates, options)]

GenRaise(e) == [st |-> e, trades |-> <<>>]

\* One round of the while loop of Leg.generate_trade_dates on the lists
\* s = [open_dates, close_dates, options]: the lists after the round (more),
\* or what the method returns or raises (done). A roll whose contract expires
\* on its own open date appends the same open date again: the loop then
\* repeats the same round for ever ("NoReturn").
GenRound(L, ld, s) ==
    Bind(Last(s.open_dates), LAMBDA d :
    IF ~(d <= L.last_open)
    THEN [more |-> FALSE, out |-> GenReturn(L, s.open_dates, s.close_dates, s.options)]
    ELSE
    Bind(get_date(L.dates, d, L.tenor_day), LAMBDA expiration :
    IF expiration = NoDate
    THEN [more |-> FALSE, out |-> GenReturn(L, s.open_dates, s.close_dates, s.options)]
    ELSE
    Bind(find_option_by_desc(ld, d, L.ticker, expiration, L.opt_type, L.moneyness),
         LAMBDA r :
    IF r.st # "ok" THEN [more |-> FALSE, out |-> GenRaise(r.st)]
    ELSE
    Bind(PyIndex(L.dates, check_date(L.dates, r.opt.expiration) - L.close_n_tday_before),
         LAMBDA close_date :
    IF ~close_date.ok THEN [more |-> FALSE, out |-> GenRaise("IndexError")]
    ELSE IF close_date.v <= d THEN [more |-> FALSE, out |-> GenRaise("InvalidCloseDateError")]
    ELSE IF L.open_frequency_d.roll
    THEN IF r.opt.expiration = d THEN [more |-> FALSE, out |-> GenRaise("NoReturn")]
         ELSE [more |-> TRUE,
               s |-> [open_dates |-> Append(s.open_dates, r.opt.expiration),
                      close_dates |-> Append(s.close_dates, close_date.v),
                      options |-> Append(s.options, r.opt)]]
    ELSE
    Bind(get_date(L.dates, d, L.open_frequency_d.d), LAMBDA open_date :
    IF open_date # NoDate
    THEN [more |-> TRUE,
          s |-> [open_dates |-> Append(s.open_dates, open_date),
                 close_dates |-> Append(s.close_dates, close_date.v),
                 options |-> Append(s.options, r.opt)]]
    ELSE [more |-> FALSE,
          out |-> GenReturn(L, s.open_dates, Append(s.close_dates, close_date.v),
                            Append(s.options, r.opt))])))))

\* The while loop of Leg.generate_trade_dates.
RECURSIVE GenLoop(_, _, _)
GenLoop(L, ld, s) ==
    Bind(GenRound(L, ld, s), LAMBDA n : IF n.more THEN GenLoop(L, ld, n.s) ELSE n.out)

\* Leg.generate_trade_dates.
generate_trade_dates(L, ld) ==
    IF L.dates = <<>> THEN GenRaise("IndexError")
    ELSE GenLoop(L, ld, [open_dates |-> <<L.dates[1]>>, close_dates |-> <<>>,
                         options |-> <<>>])

\* Leg.__init__: the fields set by the constructor, the others None until
\* the caller assigns them.
NewLeg(dates, last_open) ==
    [dates |-> dates, last_open |-> last_open, ticker |-> None, side |-> None,
     quantity |-> None, opt_type |-> None, tenor_day |-> None, moneyness |-> None,
     open_frequency_d |-> None, close_n_tday_before |-> None, open_px |-> None,
     close_px |-> None, trades |-> NoTrades, decider |-> [set |-> FALSE, accept |-> {}]]

\* Leg.get_multiplier.
get_multiplier(L) ==
    IF L.side = "l" THEN L.quantity * 100 ELSE -1 * L.quantity * 100

\* The price a Leg reads off a contract (strategy.py lines 98-107, 137-148):
\* getattr(option, px) for "bid" and "ask"; for "mid" it calls option.mid(),
\* and mid is a property, a float, so the call raises TypeError. A contract
\* that find_option_exact did not find is None: AttributeError.
LegPrice(option, px) ==
    IF option = None THEN [st |-> "AttributeError", v |-> 0]
    ELSE IF px = "mid" THEN [st |-> "TypeError", v |-> 0]
    ELSE [st |-> "ok", v |-> IF px = "bid" THEN option.bid ELSE option.ask]

\* pd.DataFrame(np.zeros(len(self.dates)), index=self.dates)
Zeros(dates) == [i \in 1..Len(dates) |-> 0]

InIndex(dates, date) == \E i \in 1..Len(dates) : dates[i] = date

\* df.loc[date] += x, for a date of the index
LocAdd(df, dates, date, x) ==
    [i \in 1..Len(dates) |-> IF dates[i] = date THEN df[i] + x ELSE df[i]]

\* if decider: if decider(open_date): pass / else: continue
Skipped(L, open_date) == L.decider.set /\ open_date \notin L.decider.accept

\* A method's frame w = [st, df, log]: the column so far and each amount
\* added to it, or the exception raised.
Frame(dates) == [st |-> "ok", df |-> Zeros(dates), log |-> <<>>]

Fail(e) == [st |-> e, df |-> <<>>, log |-> <<>>]

\* df.loc[date] += x for trade i, recorded in the log
Mark(L, w, i, date, x) ==
    IF ~InIndex(L.dates, date) THEN Fail("KeyError")
    ELSE [st |-> "ok", df |-> LocAdd(w.df, L.dates, date, x),
          log |-> Append(w.log, [trade |-> i, date |-> date, amount |-> x])]

\* The body of the for loop of Leg.get_realized_pnl for trade i.
RealizedTrade(L, ld, trade, i, w) ==
    IF Skipped(L, trade.open) THEN w
    ELSE
    Bind(LegPrice(trade.option, L.open_px), LAMBDA open_px :
    IF open_px.st # "ok" THEN Fail(open_px.st)
    ELSE
    Bind(find_option_exact(ld, trade.close, trade.option), LAMBDA closing_option :
    IF closing_option.st # "ok" THEN Fail(closing_option.st)
    ELSE
    Bind(LegPrice(closing_option.opt, L.close_px), LAMBDA close_px :
    IF close_px.st # "ok" THEN Fail(close_px.st)
    ELSE Mark(L, w, i, trade.close, get_multiplier(L) * (close_px.v - open_px.v)))))

\* The for loop of Leg.get_realized_pnl, from trade i.
RECURSIVE RealizedLoop(_, _, _, _, _)
RealizedLoop(L, ld, trades, i, w) ==
    IF i > Len(trades) \/ w.st # "ok" THEN w
    ELSE Bind(RealizedTrade(L, ld, trades[i], i, w),
              LAMBDA w2 : RealizedLoop(L, ld, trades, i + 1, w2))

\* One round of the while loop of Leg.get_unrealized_pnl for trade i, at
\* c = [curr_date, open_px]: the frame and c after it, and whether the loop
\* goes on.
UnrealizedRound(L, ld, trade, i, c, w) ==
    Bind(find_option_exact(ld, c.curr_date, trade.option), LAMBDA curr_option :
    IF curr_option.st # "ok" THEN [more |-> FALSE, w |-> Fail(curr_option.st), c |-> c]
    ELSE
    Bind(LegPrice(curr_option.opt, L.close_px), LAMBDA curr_px :
    IF curr_px.st # "ok" THEN [more |-> FALSE, w |-> Fail(curr_px.st), c |-> c]
    ELSE
    Bind(Mark(L, w, i, c.curr_date, get_multiplier(L) * (curr_px.v - c.open_px)),
         LAMBDA w2 :
    Bind(check_date(L.dates, c.curr_date), LAMBDA date_idx :
    IF w2.st = "ok" /\ date_idx < Len(L.dates) - 1
    THEN [more |-> TRUE, w |-> w2,
          c |-> [curr_date |-> L.dates[date_idx + 2], open_px |-> curr_px.v]]
    ELSE [more |-> FALSE, w |-> w2, c |-> c]))))

\* The while loop of Leg.get_unrealized_pnl over the dates of trade i.
RECURSIVE UnrealizedWalk(_, _, _, _, _, _)
UnrealizedWalk(L, ld, trade, i, c, w) ==
    IF ~(c.curr_date <= trade.close) THEN w
    ELSE Bind(UnrealizedRound(L, ld, trade, i, c, w),
              LAMBDA n : IF n.more THEN UnrealizedWalk(L, ld, trade, i, n.c, n.w)
                         ELSE n.w)

\* The body of the for loop of Leg.get_unrealized_pnl for trade i.
UnrealizedTrade(L, ld, trade, i, w) ==
    IF Skipped(L, trade.open) THEN w
    ELSE Bind(LegPrice(trade.option, L.open_px), LAMBDA open_px :
              IF open_px.st # "ok" THEN Fail(open_px.st)
              ELSE UnrealizedWalk(L, ld, trade, i,
                                  [curr_date |-> trade.open, open_px |-> open_px.v], w))

\* The for loop of Leg.get_unrealized_pnl, from trade i.
RECURSIVE UnrealizedLoop(_, _, _, _, _)
UnrealizedLoop(L, ld, trades, i, w) ==
    IF i > Len(trades) \/ w.st # "ok" THEN w
    ELSE Bind(UnrealizedTrade(L, ld, trades[i], i, w),
              LAMBDA w2 : UnrealizedLoop(L, ld, trades, i + 1, w2))

\* One round of the while loop of Leg.get_greek for trade i at curr_date.
GreekRound(L, ld, greek, trade, i, curr_date, w) ==
    Bind(find_option_exact(ld, curr_date, trade.option), LAMBDA curr_option :
    IF curr_option.st # "ok"
    THEN [more |-> FALSE, w |-> Fail(curr_option.st), curr_date |-> curr_date]
    ELSE IF curr_option.opt = None
    THEN [more |-> FALSE, w |-> Fail("AttributeError"), curr_date |-> curr_date]
    ELSE
    Bind(Mark(L, w, i, curr_date, get_multiplier(L) * curr_option.opt.greeks[greek]),
         LAMBDA w2 :
    Bind(check_date(L.dates, curr_date), LAMBDA date_idx :
    IF w2.st = "ok" /\ date_idx < Len(L.dates) - 1
    THEN [more |-> TRUE, w |-> w2, curr_date |-> L.dates[date_idx + 2]]
    ELSE [more |-> FALSE, w |-> w2, curr_date |-> curr_date])))

\* The while loop of Leg.get_greek over the dates of trade i.
RECURSIVE GreekWalk(_, _, _, _, _, _, _)
GreekWalk(L, ld, greek, trade, i, curr_date, w) ==
    IF ~(curr_date <= trade.close) THEN w
    ELSE Bind(GreekRound(L, ld, greek, trade, i, curr_date, w),
              LAMBDA n : IF n.more
                         THEN GreekWalk(L, ld, greek, trade, i, n.curr_date, n.w)
                         ELSE n.w)

\* The for loop of Leg.get_greek, from trade i.
RECURSIVE GreekLoop(_, _, _, _, _, _)
GreekLoop(L, ld, greek, trades, i, w) ==
    IF i > Len(trades) \/ w.st # "ok" THEN w
    ELSE Bind(IF Skipped(L, trades[i].open) THEN w
              ELSE GreekWalk(L, ld, greek, trades[i], i, trades[i].open, w),
              LAMBDA w2 : GreekLoop(L, ld, greek, trades, i + 1, w2))

\* if not (self.trades): self.trades = self.generate_trade_dates()
\* `runs` holds what the generation returned when it ran; an exception of the
\* generation leaves self.trades as it was and ends the method.
FillTrades(L, ld) ==
    IF Falsy(L.trades)
    THEN Bind(generate_trade_dates(L, ld), LAMBDA g :
              [st |-> g.st, runs |-> <<g>>,
               leg |-> IF g.st = "ok"
                       THEN [L EXCEPT !.trades = [set |-> TRUE, v |-> g.trades]]
                       ELSE L])
    ELSE [st |-> "ok", runs |-> <<>>, leg |-> L]

\* A Leg method m: "realized_pnl", "unrealized_pnl" or a greek's name.
\* Returns the Leg after the call, the column the call returned (or what it
\* raised), each amount it added (log) and the generation runs it made.
LegMethod(L, ld, m) ==
    Bind(FillTrades(L, ld), LAMBDA f :
    Bind(IF f.st # "ok" THEN Fail(f.st)
         ELSE IF m = "realized_pnl"
         THEN RealizedLoop(f.leg, ld, f.leg.trades.v, 1, Frame(L.dates))
         ELSE IF m = "unrealized_pnl"
         THEN UnrealizedLoop(f.leg, ld, f.leg.trades.v, 1, Frame(L.dates))
         ELSE GreekLoop(f.leg, ld, m, f.leg.trades.v, 1, Frame(L.dates)),
         LAMBDA w : [st |-> w.st, df |-> w.df, log |-> w.log, runs |-> f.runs,
                     leg |-> f.leg]))

\* Series.cumsum()
RECURSIVE SumTo(_, _)
SumTo(col, i) == IF i = 0 THEN 0 ELSE col[i] + SumTo(col, i - 1)

CumSum(col) == [i \in 1..Len(col) |-> SumTo(col, i)]

\* Strategy.__construct_df for one leg: the methods in the order they are
\* called; the first exception ends it. a = [leg, cols, logs, runs].
ConstructOrder == <<"unrealized_pnl", "realized_pnl", "delta", "gamma", "theta", "vega", "rho">>

RECURSIVE ConstructDf(_, _, _)
ConstructDf(ld, k, a) ==
    IF k > Len(ConstructOrder) THEN [a EXCEPT !.st = "ok"]
    ELSE Bind(LegMethod(a.leg, ld, ConstructOrder[k]), LAMBDA r :
              IF r.st # "ok"
              THEN [a EXCEPT !.st = r.st, !.runs = @ \o r.runs, !.leg = r.leg]
              ELSE ConstructDf(ld, k + 1,
                               [a EXCEPT !.runs = @ \o r.runs, !.leg = r.leg,
                                         !.cols = @ @@ (ConstructOrder[k] :> r.df),
                                         !.logs = @ @@ (ConstructOrder[k] :> r.log)]))

\* Strategy.get_stats of a strategy of one leg: the columns of the leg and
\* the two cumulative sums.
StrategyGetStats(L, ld) ==
    Bind(ConstructDf(ld, 1, [st |-> "ok", leg |-> L, cols |-> <<>>, logs |-> <<>>,
                             runs |-> <<>>]),
         LAMBDA c :
         IF c.st # "ok" THEN c
         ELSE [c EXCEPT !.cols =
                  @ @@ ("cummulative_unreal_pnl" :> CumSum(c.cols["unrealized_pnl"]))
                    @@ ("cummulative_real_pnl" :> CumSum(c.cols["realized_pnl"]))])

\* --------------------------------------------------------------------- PDS
\* PDS.__get_dates: the loader's dates from start_date on.
PdsDates(ld, start_date) == SelectSeq(list_dates(ld), LAMBDA d : d >= start_date)

\* PDS.__init__: the put debit spread over the loader's dates, with the
\* defaults of the constructor (the decider `lambda x: True` accepts every
\* date).
NewPDS(ld, start_date) ==
    [start_date |-> start_date, dates |-> PdsDates(ld, start_date), ticker |-> None,
     moneyness |-> <<<<1, 1>>, <<9, 10>>>>, initial_cap |-> None, tenor |-> <<7, 30>>,
     open_px |-> None, close_px |-> None, trades |-> NoTrades, capital |-> None,
     decider |-> [set |-> FALSE, accept |-> {}]]

\* PDS.last_open.
last_open(P) == Last(P.dates) - P.tenor[1]

\* self.decider(date)
Accepts(P, date) == ~P.decider.set \/ date \in P.decider.accept

\* list(zip(open_dates, close_dates, trades_s, trades_l))
Zip4(open_dates, close_dates, trades_s, trades_l) ==
    LET n == IntMin(<<Len(open_dates), Len(close_dates), Len(trades_s), Len(trades_l)>>)
    IN [i \in 1..n |-> [open |-> open_dates[i], close |-> close_dates[i],
                        option_s |-> trades_s[i], option_l |-> trades_l[i]]]

PdsGenReturn(s) ==
    [st |-> "ok", trades |-> Zip4(s.open_dates, s.close_dates, s.trades_s, s.trades_l),
     candidates |-> s.candidates]

PdsGenRaise(e) == [st |-> e, trades |-> <<>>, candidates |-> <<>>]

\* s with the trade t appended to the four lists, the next round opening at
\* open_date.
Keep(s, t, open_date) ==
    [open_date |-> open_date, open_dates |-> Append(s.open_dates, t.open),
     close_dates |-> Append(s.close_dates, t.close),
     trades_s |-> Append(s.trades_s, t.option_s),
     trades_l |-> Append(s.trades_l, t.option_l),
     candidates |-> Append(s.candidates, t)]

\* s after the four pops of lines 112-115: the lists as before the round.
Pop(s, t, open_date) ==
    [s EXCEPT !.open_date = open_date, !.candidates = Append(@, t)]

\* Lines 109-115: open_date becomes the short contract's expiration, and the
\* decider is asked about that date.
PdsGenStep(P, s, t) ==
    IF Accepts(P, t.option_s.expiration) THEN Keep(s, t, t.option_s.expiration)
    ELSE Pop(s, t, t.option_s.expiration)

\* One round of the while loop of PDS.generate_trades. `candidates` records
\* every trade the loop appended, popped afterwards or not. A short contract
\* that expires on its own open date leaves open_date where it is: the loop
\* never ends ("NoReturn").
PdsGenRound(P, ld, s) ==
    IF ~(s.open_date <= last_open(P)) THEN [more |-> FALSE, out |-> PdsGenReturn(s)]
    ELSE
    Bind(find_option_by_desc(ld, s.open_date, P.ticker, s.open_date + P.tenor[1],
                             "put", P.moneyness[1]), LAMBDA option_s :
    IF option_s.st # "ok" THEN [more |-> FALSE, out |-> PdsGenRaise(option_s.st)]
    ELSE
    Bind(find_option_by_desc(ld, s.open_date, P.ticker, s.open_date + P.tenor[2],
                             "put", P.moneyness[2]), LAMBDA option_l :
    IF option_l.st # "ok" THEN [more |-> FALSE, out |-> PdsGenRaise(option_l.st)]
    ELSE IF ~InIndex(P.dates, option_s.opt.expiration)
    THEN [more |-> FALSE, out |-> PdsGenReturn(s)]
    ELSE IF option_s.opt.expiration = s.open_date
    THEN [more |-> FALSE, out |-> PdsGenRaise("NoReturn")]
    ELSE [more |-> TRUE,
          s |-> PdsGenStep(P, s,
                    [open |-> s.open_date,
                     close |-> P.dates[check_date(P.dates, option_s.opt.expiration) + 1],
                     option_s |-> option_s.opt, option_l |-> option_l.opt])]))

\* The while loop of PDS.generate_trades.
RECURSIVE PdsGenLoop(_, _, _)
PdsGenLoop(P, ld, s) ==
    Bind(PdsGenRound(P, ld, s),
         LAMBDA n : IF n.more THEN PdsGenLoop(P, ld, n.s) ELSE n.out)

\* PDS.generate_trades.
generate_trades(P, ld) ==
    IF P.dates = <<>> THEN PdsGenRaise("IndexError")
    ELSE PdsGenLoop(P, ld, [open_date |-> P.dates[1], open_dates |-> <<>>,
                            close_dates |-> <<>>, trades_s |-> <<>>, trades_l |-> <<>>,
                            candidates |-> <<>>])

\* PDS.get_margin.
get_margin(option_s, option_l) ==
    (IF option_s.strike - option_l.strike > 0 THEN option_s.strike - option_l.strike
     ELSE 0) * 100

\* PDS.get_multiplier, for a margin above 0: capital // margin * 100, negative
\* for the short side.
PdsMultiplier(side, capital, margin) ==
    IF side = "l" THEN (capital \div margin) * 100 ELSE (capital \div margin) * (-100)

\* getattr(option, px): the quote field, or the mid property; None has no
\* such attribute.
PdsPrice(option, px) ==
    IF option = None THEN [st |-> "AttributeError", v |-> 0]
    ELSE [st |-> "ok", v |-> IF px = "bid" THEN option.bid
                             ELSE IF px = "ask" THEN option.ask ELSE Mid(option)]

\* A cell of the capital column: nan until a value is written.
Nan == [set |-> FALSE, v |-> 0]

Cell(v) == [set |-> TRUE, v |-> v]

\* if df_capital.loc[open_date].isnull()[0]: 0, else the value
CapitalAt(capital, dates, open_date) ==
    LET c == capital[check_date(dates, open_date) + 1]
    IN IF c.set THEN c.v ELSE 0

\* df_capital.loc[date] = v
LocSet(capital, dates, date, v) ==
    [i \in 1..Len(dates) |-> IF dates[i] = date THEN Cell(v) ELSE capital[i]]

\* df_capital.fillna(method="ffill")
RECURSIVE FFill(_, _)
FFill(capital, i) ==
    IF i > Len(capital) THEN capital
    ELSE IF ~capital[i].set /\ i > 1
    THEN Bind([capital EXCEPT ![i] = capital[i - 1]], LAMBDA c : FFill(c, i + 1))
    ELSE FFill(capital, i + 1)

\* The frame of PDS.get_unrealized_pnl: the two columns and, in log, every
\* mark (the trade, the date, the amount added and the capital written).
PdsFrame(P) ==
    [st |-> "ok", df |-> Zeros(P.dates),
     capital |-> [i \in 1..Len(P.dates) |-> IF i = 1 THEN Cell(P.initial_cap) ELSE Nan],
     log |-> <<>>]

PdsFail(e) == [st |-> e, df |-> <<>>, capital |-> <<>>, log |-> <<>>]

\* The marks of one round (lines 139-162) at c = [curr_date, open_px_s,
\* open_px_l]: the frame with both amounts added at curr_date and the capital
\* written there, and the two prices read. A margin of 0 (the short strike
\* not above the long one) makes capital // margin a division by zero, which
\* ends the model's walk ("ZeroMargin").
PdsMark(P, ld, trade, i, c, w) ==
    Bind(find_option_exact(ld, c.curr_date, trade.option_s), LAMBDA curr_option_s :
    IF curr_option_s.st # "ok" THEN [w |-> PdsFail(curr_option_s.st)]
    ELSE
    Bind(PdsPrice(curr_option_s.opt, P.close_px), LAMBDA curr_px_s :
    IF curr_px_s.st # "ok" THEN [w |-> PdsFail(curr_px_s.st)]
    ELSE
    Bind(find_option_exact(ld, c.curr_date, trade.option_l), LAMBDA curr_option_l :
    IF curr_option_l.st # "ok" THEN [w |-> PdsFail(curr_option_l.st)]
    ELSE
    Bind(PdsPrice(curr_option_l.opt, P.close_px), LAMBDA curr_px_l :
    IF curr_px_l.st # "ok" THEN [w |-> PdsFail(curr_px_l.st)]
    ELSE
    Bind(CapitalAt(w.capital, P.dates, trade.open), LAMBDA curr_capital :
    Bind(get_margin(trade.option_s, trade.option_l), LAMBDA curr_margin :
    IF curr_margin = 0 THEN [w |-> PdsFail("ZeroMargin")]
    ELSE
    Bind(PdsMultiplier("s", curr_capital, curr_margin) * (curr_px_s.v - c.open_px_s)
         + PdsMultiplier("l", curr_capital, curr_margin) * (curr_px_l.v - c.open_px_l),
         LAMBDA amount :
    Bind(LocAdd(w.df, P.dates, c.curr_date, amount), LAMBDA df :
    Bind(IF P.initial_cap + SumTo(df, Len(df)) > 0
         THEN P.initial_cap + SumTo(df, Len(df)) ELSE 0, LAMBDA cap :
         [w |-> [st |-> "ok", df |-> df,
                 capital |-> LocSet(w.capital, P.dates, c.curr_date, cap),
                 log |-> Append(w.log, [trade |-> i, date |-> c.curr_date,
                                        amount |-> amount, capital |-> cap])],
          cap |-> cap, curr_px_s |-> curr_px_s.v, curr_px_l |-> curr_px_l.v])))))))))

\* Lines 167-171: the prices are rebased and curr_date moves to the next
\* trading date; past the last one the subscript raises IndexError (the
\* frame then keeps the marks made so far).
PdsAdvance(P, c, m) ==
    Bind(check_date(P.dates, c.curr_date), LAMBDA date_idx :
         IF date_idx + 1 > Len(P.dates) - 1
         THEN [more |-> FALSE, w |-> [m.w EXCEPT !.st = "IndexError"], c |-> c]
         ELSE [more |-> TRUE, w |-> m.w,
               c |-> [curr_date |-> P.dates[date_idx + 2], open_px_s |-> m.curr_px_s,
                      open_px_l |-> m.curr_px_l]])

\* The round without the test of lines 164-165.
PdsRoundNoStop(P, ld, trade, i, c, w) ==
    Bind(PdsMark(P, ld, trade, i, c, w), LAMBDA m :
         IF m.w.st # "ok" THEN [more |-> FALSE, w |-> m.w, c |-> c]
         ELSE PdsAdvance(P, c, m))

\* One round of the while loop of PDS.get_unrealized_pnl for trade i: the
\* marks, the break when the capital written is 0, the advance.
PdsRound(P, ld, trade, i, c, w) ==
    Bind(PdsMark(P, ld, trade, i, c, w), LAMBDA m :
         IF m.w.st # "ok" THEN [more |-> FALSE, w |-> m.w, c |-> c]
         ELSE IF m.cap = 0 THEN [more |-> FALSE, w |-> m.w, c |-> c]
         ELSE PdsAdvance(P, c, m))

\* The while loop of PDS.get_unrealized_pnl over the dates of trade i.
RECURSIVE PdsWalk(_, _, _, _, _, _)
PdsWalk(P, ld, trade, i, c, w) ==
    IF ~(c.curr_date <= trade.close) THEN w
    ELSE Bind(PdsRound(P, ld, trade, i, c, w),
              LAMBDA n : IF n.more THEN PdsWalk(P, ld, trade, i, n.c, n.w) ELSE n.w)

\* The body of the for loop of PDS.get_unrealized_pnl for trade i.
PdsTrade(P, ld, trade, i, w) ==
    PdsWalk(P, ld, trade, i,
            [curr_date |-> trade.open, open_px_s |-> PdsPrice(trade.option_s, P.open_px).v,
             open_px_l |-> PdsPrice(trade.option_l, P.open_px).v], w)

\* The for loop of PDS.get_unrealized_pnl, from trade i.
RECURSIVE PdsLoop(_, _, _, _, _)
PdsLoop(P, ld, trades, i, w) ==
    IF i > Len(trades) \/ w.st # "ok" THEN w
    ELSE Bind(PdsTrade(P, ld, trades[i], i, w),
              LAMBDA w2 : PdsLoop(P, ld, trades, i + 1, w2))

\* if not (self.trades): self.trades = self.generate_trades()
PdsFillTrades(P, ld) ==
    IF Falsy(P.trades)
    THEN Bind(generate_trades(P, ld), LAMBDA g :
              [st |-> g.st, runs |-> <<g>>,
               pds |-> IF g.st = "ok"
                       THEN [P EXCEPT !.trades = [set |-> TRUE, v |-> g.trades]]
                       ELSE P])
    ELSE [st |-> "ok", runs |-> <<>>, pds |-> P]

\* PDS.get_unrealized_pnl: the PDS after the call, the two columns returned
\* (the capital forward-filled, kept in self.capital), the marks and the
\* generation runs; or the exception raised, with the marks made before it.
PdsGetUnrealizedPnl(P, ld) ==
    Bind(PdsFillTrades(P, ld), LAMBDA f :
    IF f.st # "ok"
    THEN [st |-> f.st, df |-> <<>>, capital |-> <<>>, log |-> <<>>, runs |-> f.runs,
          pds |-> f.pds]
    ELSE
    Bind(PdsLoop(f.pds, ld, f.pds.trades.v, 1, PdsFrame(f.pds)), LAMBDA w :
    IF w.st # "ok"
    THEN [st |-> w.st, df |-> <<>>, capital |-> <<>>, log |-> w.log, runs |-> f.runs,
          pds |-> f.pds]
    ELSE
    Bind(FFill(w.capital, 1), LAMBDA df_capital :
         [st |-> "ok", df |-> w.df, capital |-> df_capital, log |-> w.log,
          runs |-> f.runs, pds |-> [f.pds EXCEPT !.capital = df_capital]])))

\* One round of the while loop of PDS.get_greek for trade i at curr_date.
PdsGreekRound(P, ld, greek, trade, i, curr_date, w) ==
    Bind(find_option_exact(ld, curr_date, trade.option_s), LAMBDA curr_option_s :
    IF curr_option_s.st # "ok"
    THEN [more |-> FALSE, w |-> Fail(curr_option_s.st), curr_date |-> curr_date]
    ELSE
    Bind(find_option_exact(ld, curr_date, trade.option_l), LAMBDA curr_option_l :
    IF curr_option_l.st # "ok"
    THEN [more |-> FALSE, w |-> Fail(curr_option_l.st), curr_date |-> curr_date]
    ELSE
    Bind(CapitalAt(P.capital, P.dates, trade.open), LAMBDA curr_capital :
    Bind(get_margin(trade.option_s, trade.option_l), LAMBDA curr_margin :
    IF curr_margin = 0
    THEN [more |-> FALSE, w |-> Fail("ZeroMargin"), curr_date |-> curr_date]
    ELSE IF curr_option_s.opt = None \/ curr_option_l.opt = None
    THEN [more |-> FALSE, w |-> Fail("AttributeError"), curr_date |-> curr_date]
    ELSE
    Bind(Mark(P, w, i, curr_date,
              PdsMultiplier("s", curr_capital, curr_margin)
                  * curr_option_s.opt.greeks[greek]
              + PdsMultiplier("l", curr_capital, curr_margin)
                  * curr_option_l.opt.greeks[greek]), LAMBDA w2 :
    Bind(check_date(P.dates, curr_date), LAMBDA date_idx :
    IF date_idx + 1 > Len(P.dates) - 1
    THEN [more |-> FALSE, w |-> Fail("IndexError"), curr_date |-> curr_date]
    ELSE [more |-> TRUE, w |-> w2, curr_date |-> P.dates[date_idx + 2]]))))))

\* The while loop of PDS.get_greek over the dates of trade i.
RECURSIVE PdsGreekWalk(_, _, _, _, _, _, _)
PdsGreekWalk(P, ld, greek, trade, i, curr_date, w) ==
    IF ~(curr_date <= trade.close) THEN w
    ELSE Bind(PdsGreekRound(P, ld, greek, trade, i, curr_date, w),
              LAMBDA n : IF n.more
                         THEN PdsGreekWalk(P, ld, greek, trade, i, n.curr_date, n.w)
                         ELSE n.w)

\* The for loop of PDS.get_greek, from trade i.
RECURSIVE PdsGreekLoop(_, _, _, _, _, _)
PdsGreekLoop(P, ld, greek, trades, i, w) ==
    IF i > Len(trades) \/ w.st # "ok" THEN w
    ELSE Bind(PdsGreekWalk(P, ld, greek, trades[i], i, trades[i].open, w),
              LAMBDA w2 : PdsGreekLoop(P, ld, greek, trades, i + 1, w2))

\* PDS.get_greek.
PdsGetGreek(P, ld, greek) ==
    Bind(PdsFillTrades(P, ld), LAMBDA f :
    Bind(IF f.st # "ok" THEN Fail(f.st)
         ELSE IF f.pds.capital = None THEN Fail("CapitalNotInitializedError")
         ELSE PdsGreekLoop(f.pds, ld, greek, f.pds.trades.v, 1, Frame(f.pds.dates)),
         LAMBDA w : [st |-> w.st, df |-> w.df, log |-> w.log, runs |-> f.runs,
                     pds |-> f.pds]))

\* np.fmax.accumulate(series)
RunMax(series, t) ==
    CHOOSE m \in {series[j] : j \in 1..t} : \A j \in 1..t : series[j] <= m

\* PDSStrategy.__get_drawdown: (series - runmax) / runmax at every date, as
\* the fraction <<numerator, denominator>>; over a running maximum of 0 the
\* division is 0 / 0, nan.
get_drawdown(series) ==
    [t \in 1..Len(series) |-> <<series[t] - RunMax(series, t), RunMax(series, t)>>]

\* PDSStrategy.__construct_df for one leg, from greek k on: a = [st, pds,
\* cols, logs, runs].
PdsGreekOrder == <<"delta", "gamma", "theta", "vega", "rho">>

RECURSIVE PdsConstructGreeks(_, _, _)
PdsConstructGreeks(ld, k, a) ==
    IF k > Len(PdsGreekOrder) THEN a
    ELSE Bind(PdsGetGreek(a.pds, ld, PdsGreekOrder[k]), LAMBDA r :
              IF r.st # "ok"
              THEN [a EXCEPT !.st = r.st, !.runs = @ \o r.runs, !.pds = r.pds]
              ELSE PdsConstructGreeks(ld, k + 1,
                       [a EXCEPT !.runs = @ \o r.runs, !.pds = r.pds,
                                 !.cols = @ @@ (PdsGreekOrder[k] :> r.df),
                                 !.logs = @ @@ (PdsGreekOrder[k] :> r.log)]))

\* PDSStrategy.get_stats of a strategy of one leg: the unrealized PnL, the
\* greeks, the capital and its drawdown.
PdsStrategyGetStats(P, ld) ==
    Bind(PdsGetUnrealizedPnl(P, ld), LAMBDA u :
    IF u.st # "ok"
    THEN [st |-> u.st, pds |-> u.pds, cols |-> <<>>, logs |-> <<>>, runs |-> u.runs]
    ELSE
    Bind(PdsConstructGreeks(ld, 1,
             [st |-> "ok", pds |-> u.pds, runs |-> u.runs,
              cols |-> ("unrealized_pnl" :> u.df) @@ ("capital" :> [t \in 1..Len(u.capital) |-> u.capital[t].v]),
              logs |-> ("unrealized_pnl" :> u.log)]), LAMBDA c :
    IF c.st # "ok" THEN [c EXCEPT !.cols = <<>>, !.logs = <<>>]
    ELSE [c EXCEPT !.cols = @ @@ ("drawdown" :> get_drawdown(c.cols["capital"]))]))

\* ------------------------------------------- the chain-query specification
\* The chain is AMZN's of day 1; contracts offered to add_option also carry
\* another ticker or another quote date.
Tickers == {"amzn", "SPY"}
QuoteDates == {0, 1}
Expirations == {2, 4}
Strikes == {1, 3}
OptTypes == {"call", "put"}
QueryTypes == {"call", "put", "PUT"}
Underlyings == {2}
\* target moneyness values 1 and 4/3: with the underlying at 2, the puts
\* struck at 1 and 3 tie at 1, the calls tie at 4/3
Targets == {<<1, 1>>, <<4, 3>>}
\* target expirations: day 3 ties between the expirations 2 and 4
ExpiryDates == {3, 5}
ExpiryOffsets == {2}
ExpiryArgs == [int : {FALSE}, v : ExpiryDates] \cup [int : {TRUE}, v : ExpiryOffsets]

\* The strategy objects do not exist in the chain-query specification.
StratIdle ==
    /\ loader = None
    /\ leg = None
    /\ pds = None
    /\ ret = [op |-> "init"]
    /\ gens = <<>>
    /\ ncalls = 0

\* chain = OptionChain("amzn", 1)
ChainInit ==
    /\ chain = NewChain("amzn", 1)
    /\ result = None
    /\ call = [op |-> "init"]
    /\ raised = "none"
    /\ queried = FALSE
    /\ heap = NoHeap
    /\ StratIdle

Receivers == {chain} \cup (IF result = None THEN {} ELSE {result})

\* chain.add_option(option), while the chain is being built.
AddOption ==
    /\ ~queried
    /\ Len(Flatten(chain)) < MaxOptions
    /\ \E t \in Tickers, d \in QuoteDates, e \in Expirations, k \in Strikes,
          ty \in OptTypes, u \in Underlyings :
          LET o == Option(t, d, e, k, ty, 1, 3, u, [g \in Greeks |-> 1])
              r == add_option(chain, o)
          IN /\ chain' = r.ch
             /\ raised' = IF r.st = "ok" THEN "none" ELSE r.st
             /\ call' = [op |-> "add_option", recv |-> chain, arg |-> o]
    /\ UNCHANGED <<result, queried>>

\* result = recv.<filter>(arg) for a receiver that is the chain or the chain
\* an earlier filter returned.
Filter(op, recv, arg, r) ==
    /\ queried' = TRUE
    /\ call' = [op |-> op, recv |-> recv, arg |-> arg]
    /\ raised' = IF r.st = "ok" THEN "none" ELSE r.st
    /\ result' = IF r.st = "ok" THEN r.ch ELSE result
    /\ UNCHANGED chain

FilterType ==
    \E recv \in Receivers, ty \in QueryTypes :
        Filter("filter_type", recv, ty, filter_type(recv, ty))

FilterExpiry ==
    \E recv \in Receivers, e \in ExpiryDates :
        Filter("filter_expiry", recv, e, filter_expiry(recv, e))

FilterDte ==
    \E recv \in Receivers, n \in ExpiryOffsets :
        Filter("filter_dte", recv, n, filter_dte(recv, n))

FilterMoneyness ==
    \E recv \in Receivers, m \in Targets :
        Filter("filter_moneyness", recv, m, filter_moneyness(recv, m))

\* option = chain.get_option(expiry, opt_type, moneyness), asked of the
\* chain as built.
GetOption ==
    /\ ~queried
    /\ queried' = TRUE
    /\ \E e \in ExpiryArgs, ty \in QueryTypes, m \in Targets :
          LET r == get_option(chain, e, ty, m)
          IN /\ call' = [op |-> "get_option", recv |-> chain, expiry |-> e,
                         opt_type |-> ty, moneyness |-> m, ret |-> r.opt]
             /\ raised' = IF r.st = "ok" THEN "none" ELSE r.st
    /\ UNCHANGED <<chain, result>>

ChainNext ==
    \/ AddOption
    \/ FilterType
    \/ FilterExpiry
    \/ FilterDte
    \/ FilterMoneyness
    \/ GetOption

vars == <<chainVars, stratVars, heap>>

SpecChain == ChainInit /\ [][ChainNext /\ UNCHANGED <<stratVars, heap>>]_vars

\* ------------------------------------------------- claims on the chain
\* |o.moneyness - target|
Distance(o, tgt) == FracAbsDiff(Moneyness(o), tgt)

Count(s, x) == Cardinality({i \in 1..Len(s) : s[i] = x})

\* The expiration get_option aims at: the date given, or quote_date + offset.
TargetExpiration(ch, expiry) == IF expiry.int THEN ch.quote_date + expiry.v ELSE expiry.v

OfType(o, opt_type) == Lower(o.opt_type) = Lower(opt_type)

\* C1: get_option on a chain holding a contract of the requested type returns
\* a contract of that type, of the expiration nearest to the target among the
\* expirations holding that type (the first key on a tie), at the least
\* moneyness distance among the contracts of that type and expiration (the
\* first inserted on a tie): the first contract of
\* filter_moneyness(filter_expiry(filter_type(chain))).
C1_GetOptionNearest ==
    (call.op = "get_option" /\ \E i \in 1..Len(Flatten(call.recv)) :
                                   OfType(Flatten(call.recv)[i], call.opt_type))
    => LET ch == call.recv
           c == call.ret
           tgt == TargetExpiration(ch, call.expiry)
           typed == SelectSeq(Flatten(ch), LAMBDA o : OfType(o, call.opt_type))
           g == SelectSeq(Group(ch, c.expiration), LAMBDA o : OfType(o, call.opt_type))
           a == filter_type(ch, call.opt_type)
           b == filter_expiry(a.ch, tgt)
           m == filter_moneyness(b.ch, call.moneyness)
       IN /\ raised = "none"
          /\ OfType(c, call.opt_type)
          /\ \A i \in 1..Len(typed) :
                /\ Abs(c.expiration - tgt) <= Abs(typed[i].expiration - tgt)
                /\ Abs(c.expiration - tgt) = Abs(typed[i].expiration - tgt)
                   => KeyIndex(ch, c.expiration) <= KeyIndex(ch, typed[i].expiration)
          /\ \E i \in 1..Len(g) :
                /\ g[i] = c
                /\ \A j \in 1..Len(g) :
                      FracLeq(Distance(c, call.moneyness), Distance(g[j], call.moneyness))
                /\ \A j \in 1..(i - 1) :
                      FracLess(Distance(c, call.moneyness), Distance(g[j], call.moneyness))
          /\ m.st = "ok" /\ c = m.ch.groups[1].options[1]

\* get_option has answered on a chain of two expirations where the nearest
\* expiration holds two contracts of the type at different distances, the
\* nearer one inserted second.
C1_Witness ==
    /\ call.op = "get_option"
    /\ raised = "none"
    /\ Len(call.recv.groups) = 2
    /\ LET g == SelectSeq(Group(call.recv, call.ret.expiration),
                          LAMBDA o : OfType(o, call.opt_type))
       IN /\ Len(g) = 2
          /\ g[2] = call.ret
          /\ g[1] # g[2]

\* C5 as stated: filter_moneyness keeps every contract of every group and
\* orders each group by non-decreasing distance to the target.
C5_SortKeepsAll ==
    (call.op = "filter_moneyness" /\ raised = "none")
    => \A i \in 1..Len(call.recv.groups) :
          LET old == call.recv.groups[i]
              k == KeyIndex(result, old.expiration)
          IN /\ k # 0
             /\ LET new == result.groups[k].options
                IN /\ Len(new) = Len(old.options)
                   /\ \A j \in 1..Len(old.options) :
                         Count(new, old.options[j]) = Count(old.options, old.options[j])
                   /\ \A j \in 1..(Len(new) - 1) :
                         FracLeq(Distance(new[j], call.arg), Distance(new[j + 1], call.arg))

\* C5 (amended): filter_moneyness keeps the receiver's expiration keys in
\* their order, and of each group exactly the contracts at the group's least
\* distance to the target, in their order; the distance is therefore constant
\* (so non-decreasing) along a group, and no farther contract is kept.
C5_KeepsNearestOnly ==
    (call.op = "filter_moneyness" /\ raised = "none")
    => /\ Keys(result) = Keys(call.recv)
       /\ \A i \in 1..Len(call.recv.groups) :
             LET old == call.recv.groups[i].options
                 new == result.groups[i].options
                 least == FracMin([j \in 1..Len(old) |-> Distance(old[j], call.arg)])
             IN /\ new = SelectSeq(old, LAMBDA o : FracEq(Distance(o, call.arg), least))
                /\ \A j \in 1..(Len(new) - 1) :
                      FracLeq(Distance(new[j], call.arg), Distance(new[j + 1], call.arg))

\* filter_moneyness has answered on a group of three contracts, two of them
\* tied at the least distance and one farther.
C5_Witness ==
    /\ call.op = "filter_moneyness"
    /\ raised = "none"
    /\ \E i \in 1..Len(call.recv.groups) :
          /\ Len(call.recv.groups[i].options) = 3
          /\ Len(result.groups[i].options) = 2
          /\ result.groups[i].options[1] # result.groups[i].options[2]

Mismatch(ch, o) == o.ticker # ch.ticker \/ o.quote_date # ch.quote_date

HoldsOnlyItsOwn(ch) ==
    \A i \in 1..Len(Flatten(ch)) :
        /\ Flatten(ch)[i].ticker = ch.ticker
        /\ Flatten(ch)[i].quote_date = ch.quote_date

\* C6: add_option raises a mismatch error exactly when the contract's ticker
\* or quote date differs from the chain's and then leaves the chain as it
\* was; every contract a chain holds, built or returned by a filter, has the
\* chain's ticker and quote date.
C6_ChainIdentity ==
    /\ call.op = "add_option" =>
          IF Mismatch(call.recv, call.arg)
          THEN /\ raised \in {"TickerMismatchException", "DateMismatchException"}
               /\ chain = call.recv
          ELSE /\ raised = "none"
               /\ Len(Flatten(chain)) = Len(Flatten(call.recv)) + 1
               /\ Count(Flatten(chain), call.arg) = Count(Flatten(call.recv), call.arg) + 1
    /\ HoldsOnlyItsOwn(chain)
    /\ result # None => HoldsOnlyItsOwn(result)

\* add_option has refused a contract of another quote date on a chain that
\* already holds contracts.
C6_Witness ==
    /\ call.op = "add_option"
    /\ raised = "DateMismatchException"
    /\ call.arg.ticker = chain.ticker
    /\ Len(Flatten(chain)) = 2

\* ---------------------------------------- the calendar resolver specification
\* No chain is queried directly in the strategies' specifications.
ChainIdle ==
    /\ chain = None
    /\ result = None
    /\ call = [op |-> "init"]
    /\ raised = "none"
    /\ queried = FALSE
    /\ heap = NoHeap

\* A Leg over any set of trading days among 0..MaxCalDay.
DateInit ==
    /\ ChainIdle
    /\ \E S \in SUBSET (0..MaxCalDay) : leg = NewLeg(SortedSeq(S), 0)
    /\ loader = None
    /\ pds = None
    /\ ret = [op |-> "init"]
    /\ gens = <<>>
    /\ ncalls = 0

Anchors == {0, 1}
Offsets == {2, 4}

\* leg.get_date(date, days_delta)
GetDate ==
    /\ \E date \in Anchors, days_delta \in Offsets :
          ret' = [op |-> "get_date", date |-> date, days_delta |-> days_delta,
                  v |-> get_date(leg.dates, date, days_delta)]
    /\ UNCHANGED <<loader, leg, pds, gens, ncalls>>

SpecDate == DateInit /\ [][GetDate /\ UNCHANGED <<chainVars, heap>>]_vars

\* The trading dates within the search window of a target date.
Near(dates, target) ==
    {dates[i] : i \in {j \in 1..Len(dates) : Abs(dates[j] - target) <= SearchWindow}}

\* C4: get_date(anchor, offset) returns the trading date nearest to
\* anchor + offset when one lies within 5 days of it (the later one of two
\* equally near), the target itself when it is a trading date, and the
\* no-date signal exactly when no trading date lies within 5 days.
C4_NearestInWindow ==
    ret.op = "get_date" =>
        LET target == ret.date + ret.days_delta
            near == Near(leg.dates, target)
        IN IF near = {} THEN ret.v = NoDate
           ELSE /\ ret.v \in near
                /\ \A d \in near :
                      \/ Abs(ret.v - target) < Abs(d - target)
                      \/ Abs(ret.v - target) = Abs(d - target) /\ d <= ret.v

\* ------------------------------------------------ the Leg specifications
FlatPx == [d \in 0..MaxDay |-> 1]

\* A configured Leg: the attributes a caller assigns after construction.
Configure(L, side, quantity, opt_type, tenor_day, moneyness, freq, n, open_px, close_px, decider) ==
    [L EXCEPT !.ticker = StoreTicker, !.side = side, !.quantity = quantity,
              !.opt_type = opt_type, !.tenor_day = tenor_day, !.moneyness = moneyness,
              !.open_frequency_d = freq, !.close_n_tday_before = n,
              !.open_px = open_px, !.close_px = close_px, !.decider = decider]

Roll == [roll |-> TRUE, d |-> 0]
Every(n) == [roll |-> FALSE, d |-> n]
NoDecider == [set |-> FALSE, accept |-> {}]
Decider(S) == [set |-> TRUE, accept |-> S]

\* Trade generation over every calendar of trading days among 0..MaxDay that
\* holds day 0, with one or two expirations listed (the last one not before
\* the last trading day, so that every trading day has quotes).
LegGenInit ==
    /\ ChainIdle
    /\ \E S \in SUBSET (0..MaxDay), E \in SUBSET (1..(MaxDay + 1)) :
          /\ 0 \in S
          /\ Cardinality(E) \in {1, 2}
          /\ \A d \in S : \E e \in E : e >= d
          /\ loader = Store(S, E, FlatPx)
          /\ \E tenor_day \in {1, 2}, n \in {0, 1}, freq \in {Roll, Every(2)},
                slack \in {0, 1} :
                leg = Configure(NewLeg(SortedSeq(S),
                                       Last(SortedSeq(S)) - (1 - slack) * tenor_day),
                                "l", 1, "put", tenor_day, <<1, 1>>, freq, n,
                                "bid", "bid", NoDecider)
    /\ pds = None
    /\ ret = [op |-> "init"]
    /\ gens = <<>>
    /\ ncalls = 0

\* trades = leg.generate_trade_dates()
GenerateTradeDates ==
    /\ ncalls < MaxCalls
    /\ ncalls' = ncalls + 1
    /\ \E g \in {generate_trade_dates(leg, loader)} :
          /\ ret' = [op |-> "generate_trade_dates", st |-> g.st, trades |-> g.trades]
          /\ gens' = Append(gens, g)
    /\ UNCHANGED <<loader, leg, pds>>

SpecLegGen == LegGenInit /\ [][GenerateTradeDates /\ UNCHANGED <<chainVars, heap>>]_vars

\* C2: every trade returned by generate_trade_dates has
\* open < close <= contract.expiration, and its open date, its close date and
\* its contract's expiration are trading dates.
C2_TradeInvariant ==
    ret.op = "generate_trade_dates" /\ ret.st = "ok" =>
        \A i \in 1..Len(ret.trades) :
            LET t == ret.trades[i]
            IN /\ t.open < t.close
               /\ t.close <= t.option.expiration
               /\ InIndex(leg.dates, t.open)
               /\ InIndex(leg.dates, t.close)
               /\ InIndex(leg.dates, t.option.expiration)

\* The price paths over the days 0..MaxDay, from the level 1.
PxPaths == {px \in [0..MaxDay -> 1..MaxPx] : px[0] = 1}

\* The PnL and greek calls on a Leg over the trading days 0..MaxDay with the
\* expirations 2 and 4 listed, rolling puts of tenor 2 (or of a tenor longer
\* than the history: no trade), on every price path.
LegInit ==
    /\ ChainIdle
    /\ \E px \in PxPaths : loader = Store(0..MaxDay, {2, 4, MaxDay + 1}, px)
    /\ \E side \in {"l", "s"}, tenor_day \in {2, MaxDay + 1},
          conv \in {<<"bid", "bid">>, <<"ask", "ask">>, <<"mid", "mid">>, <<"bid", "ask">>},
          decider \in {NoDecider, Decider({2})} :
          /\ tenor_day = MaxDay + 1 => side = "l" /\ decider = NoDecider /\ loader = Store(0..MaxDay, {2, 4, MaxDay + 1}, FlatPx)
          /\ leg = Configure(NewLeg(SortedSeq(0..MaxDay), MaxDay - tenor_day),
                             side, 1, "put", tenor_day, <<1, 1>>, Roll, 0,
                             conv[1], conv[2], decider)
    /\ pds = None
    /\ ret = [op |-> "init"]
    /\ gens = <<>>
    /\ ncalls = 0

\* column = leg.<method>() for get_realized_pnl, get_unrealized_pnl, get_greek
LegCall(m) ==
    /\ ncalls < MaxCalls
    /\ ncalls' = ncalls + 1
    /\ \E r \in {LegMethod(leg, loader, m)} :
          /\ ret' = [op |-> m, st |-> r.st, df |-> r.df, log |-> r.log,
                     ran |-> Len(r.runs)]
          /\ gens' = gens \o r.runs
          /\ leg' = r.leg
    /\ UNCHANGED <<loader, pds>>

GetRealizedPnl == LegCall("realized_pnl")

GetUnrealizedPnl == LegCall("unrealized_pnl")

GetGreek == \E greek \in {"delta"} : LegCall(greek)

\* df = Strategy([leg]).get_stats()
GetStats ==
    /\ ncalls < MaxCalls
    /\ ncalls' = ncalls + 1
    /\ \E r \in {StrategyGetStats(leg, loader)} :
          /\ ret' = [op |-> "get_stats", st |-> r.st, df |-> r.cols, log |-> r.logs,
                     ran |-> Len(r.runs)]
          /\ gens' = gens \o r.runs
          /\ leg' = r.leg
    /\ UNCHANGED <<loader, pds>>

LegNext ==
    \/ GetRealizedPnl
    \/ GetUnrealizedPnl
    \/ GetGreek
    \/ GetStats

SpecLeg == LegInit /\ [][LegNext /\ UNCHANGED <<chainVars, heap>>]_vars

\* The price of a contract under a price convention.
ConventionPrice(o, px) ==
    IF px = "bid" THEN o.bid ELSE IF px = "ask" THEN o.ask ELSE Mid(o)

\* The amounts a log holds for trade i, summed.
RECURSIVE LogSum(_, _)
LogSum(log, i) ==
    IF log = <<>> THEN 0
    ELSE (IF log[1].trade = i THEN log[1].amount ELSE 0) + LogSum(Tail(log), i)

\* The contract of a trade as quoted on a date.
QuotedOn(date, option) == find_option_exact(loader, date, option).opt

\* C3: with matching open and close price conventions, the unrealized marks
\* of each trade sum to sideSign x quantity x 100 x (price on the close date -
\* price on the open date), the amount get_realized_pnl books on the close
\* date; so the two cumulative columns end equal.
C3_MarksTelescope ==
    ret.op = "get_stats" /\ leg.open_px = leg.close_px =>
        /\ ret.st = "ok"
        /\ \A i \in 1..Len(leg.trades.v) :
              LET t == leg.trades.v[i]
                  booked == get_multiplier(leg)
                            * (ConventionPrice(QuotedOn(t.close, t.option), leg.close_px)
                               - ConventionPrice(t.option, leg.open_px))
              IN ~Skipped(leg, t.open) =>
                    /\ LogSum(ret.log["unrealized_pnl"], i) = booked
                    /\ LogSum(ret.log["realized_pnl"], i) = booked
        /\ Last(ret.df["cummulative_unreal_pnl"]) = Last(ret.df["cummulative_real_pnl"])

\* C3 for the quote-field conventions only: "bid"/"bid" and "ask"/"ask".
MarksTelescopeOnQuoteFields ==
    leg.open_px = "mid" \/ C3_MarksTelescope

\* C9: generate_trade_dates runs during the first call only, whatever it
\* returned, and two runs return the same sequence.
C9_GeneratedOnce ==
    /\ gens # <<>> /\ gens[1].st = "ok" => Len(gens) = 1
    /\ \A i, j \in 1..Len(gens) : gens[i] = gens[j]

\* C10: the strategy output carries a drawdown value for every date, the
\* cumulative series minus its running maximum (over that running maximum of
\* capital in the capital-constrained variant), and it is never above 0.
C10_DrawdownEverywhere ==
    /\ ret.op = "get_stats" /\ ret.st = "ok" =>
          /\ "drawdown" \in DOMAIN ret.df
          /\ \A t \in 1..Len(leg.dates) :
                /\ ret.df["drawdown"][t]
                       = ret.df["cummulative_unreal_pnl"][t]
                         - RunMax(ret.df["cummulative_unreal_pnl"], t)
                /\ ret.df["drawdown"][t] <= 0
    /\ ret.op = "pds_get_stats" /\ ret.st = "ok" =>
          /\ "drawdown" \in DOMAIN ret.df
          /\ \A t \in 1..Len(pds.dates) :
                /\ ret.df["drawdown"][t]
                       = <<ret.df["capital"][t] - RunMax(ret.df["capital"], t),
                           RunMax(ret.df["capital"], t)>>
                /\ ret.df["drawdown"][t][2] > 0
                /\ ret.df["drawdown"][t][1] <= 0

\* ------------------------------------------------- the PDS specification
\* A configured PDS: the attributes a caller assigns after construction.
ConfigurePDS(P, tenor, initial_cap, open_px, close_px, decider) ==
    [P EXCEPT !.ticker = StoreTicker, !.tenor = tenor, !.initial_cap = initial_cap,
              !.open_px = open_px, !.close_px = close_px, !.decider = decider]

\* The expirations the store lists for the spreads.
PdsExpirations == {2, 4, 6}

\* A put debit spread (short the strike 10, long the strike 9) over the days
\* 0..MaxDay or 0..MaxDay + 1. Either it is priced on every price path, with a
\* capital of one spread or one and a half, tenors 2 and 4 and the default
\* decider; or its generation is tried from either start date, with a short
\* tenor 1 or 2 and a decider, on flat prices.
PdsInit ==
    /\ ChainIdle
    /\ \E last \in {MaxDay, MaxDay + 1} :
       \E px \in [0..last -> 1..MaxPx], start_date \in {0, 1}, tenor_s \in {1, 2},
          initial_cap \in {100, 150},
          conv \in {<<"bid", "bid">>, <<"mid", "ask">>},
          decider \in {NoDecider, Decider({0}), Decider({2})} :
          /\ \/ start_date = 0 /\ tenor_s = 2 /\ decider = NoDecider
             \/ /\ \A d \in 0..last : px[d] = 1
                /\ initial_cap = 100
                /\ conv = <<"bid", "bid">>
          /\ loader = Store(0..last, PdsExpirations, px)
          /\ pds = ConfigurePDS(NewPDS(loader, start_date), <<tenor_s, 4>>, initial_cap,
                                conv[1], conv[2], decider)
    /\ leg = None
    /\ ret = [op |-> "init"]
    /\ gens = <<>>
    /\ ncalls = 0

\* trades = pds.generate_trades()
GenerateTrades ==
    /\ ncalls < MaxCalls
    /\ ncalls' = ncalls + 1
    /\ \E g \in {generate_trades(pds, loader)} :
          /\ ret' = [op |-> "generate_trades", st |-> g.st, trades |-> g.trades,
                     candidates |-> g.candidates]
          /\ gens' = Append(gens, g)
    /\ UNCHANGED <<loader, leg, pds>>

\* unrealized, capital = pds.get_unrealized_pnl()
GetPdsUnrealizedPnl ==
    /\ ncalls < MaxCalls
    /\ ncalls' = ncalls + 1
    /\ \E r \in {PdsGetUnrealizedPnl(pds, loader)} :
          /\ ret' = [op |-> "pds_unrealized_pnl", st |-> r.st, df |-> r.df,
                     capital |-> r.capital, log |-> r.log, ran |-> Len(r.runs)]
          /\ gens' = gens \o r.runs
          /\ pds' = r.pds
    /\ UNCHANGED <<loader, leg>>

\* column = pds.get_greek(greek)
GetPdsGreek ==
    /\ ncalls < MaxCalls
    /\ ncalls' = ncalls + 1
    /\ \E greek \in {"delta"} :
       \E r \in {PdsGetGreek(pds, loader, greek)} :
          /\ ret' = [op |-> "pds_greek", greek |-> greek, st |-> r.st, df |-> r.df,
                     log |-> r.log, ran |-> Len(r.runs)]
          /\ gens' = gens \o r.runs
          /\ pds' = r.pds
    /\ UNCHANGED <<loader, leg>>

\* df = PDSStrategy([pds]).get_stats()
GetPdsStats ==
    /\ ncalls < MaxCalls
    /\ ncalls' = ncalls + 1
    /\ \E r \in {PdsStrategyGetStats(pds, loader)} :
          /\ ret' = [op |-> "pds_get_stats", st |-> r.st, df |-> r.cols, log |-> r.logs,
                     ran |-> Len(r.runs)]
          /\ gens' = gens \o r.runs
          /\ pds' = r.pds
    /\ UNCHANGED <<loader, leg>>

PdsNext ==
    \/ GenerateTrades
    \/ GetPdsUnrealizedPnl
    \/ GetPdsGreek
    \/ GetPdsStats

SpecPDS == PdsInit /\ [][PdsNext /\ UNCHANGED <<chainVars, heap>>]_vars

\* The members of a sequence.
Range(seq) == {seq[i] : i \in 1..Len(seq)}

\* C7: generate_trades leaves a candidate trade out exactly when the decider
\* rejects the trade's own open date: every returned trade's open date is
\* accepted, and every candidate with an accepted open date is returned.
C7_DeciderOnOpenDate ==
    ret.op = "generate_trades" /\ ret.st = "ok" =>
        /\ \A t \in Range(ret.trades) : Accepts(pds, t.open)
        /\ \A t \in Range(ret.candidates) : Accepts(pds, t.open) => t \in Range(ret.trades)

\* A mark of trade i that wrote the capital 0 before the trade's close date.
StoppedOut(e) == e.capital = 0 /\ e.date < pds.trades.v[e.trade].close

\* C8: once the capital written after a trade's mark at date t is 0, with t
\* before the trade's close date, that trade's walk is over: it marks no
\* date after t and writes no capital after t, and the unrealized column is
\* 0 on the dates between t and the close date.
C8_StopOutEndsWalk ==
    ret.op = "pds_unrealized_pnl" /\ ret.st = "ok" =>
        \A e \in Range(ret.log) :
            StoppedOut(e) =>
                /\ \A f \in Range(ret.log) : f.trade = e.trade => f.date <= e.date
                /\ \A j \in 1..Len(pds.dates) :
                      e.date < pds.dates[j] /\ pds.dates[j] < pds.trades.v[e.trade].close
                          => ret.df[j] = 0

\* A loss has driven the capital to 0 before the close date of the trade.
C8_Witness ==
    /\ ret.op = "pds_unrealized_pnl"
    /\ ret.st = "ok"
    /\ \E e \in Range(ret.log) : StoppedOut(e) /\ e.amount < 0 /\ e.date > pds.trades.v[e.trade].open

\* ------------------------------------------------ chains as heap objects
\* A chain object is [ticker, quote_date, chain], its dict `chain` a sequence
\* of entries [expiration, list], `list` the position in heap.lists of the
\* list object the key refers to; a chain's id is its position in
\* heap.chains.
\* The chain object c as a value: its keys in order, each with the contents
\* of its list.
View(h, c) ==
    [ticker |-> h.chains[c].ticker, quote_date |-> h.chains[c].quote_date,
     groups |-> [i \in 1..Len(h.chains[c].chain) |->
                    [expiration |-> h.chains[c].chain[i].expiration,
                     options |-> h.lists[h.chains[c].chain[i].list]]]]

\* new_chain = OptionChain(...) filled by add_option: a new chain object
\* with a new list for every key (options.py lines 102-105).
AllocChain(h, v) ==
    [h |-> [chains |-> Append(h.chains,
                          [ticker |-> v.ticker, quote_date |-> v.quote_date,
                           chain |-> [i \in 1..Len(v.groups) |->
                                         [expiration |-> v.groups[i].expiration,
                                          list |-> Len(h.lists) + i]]]),
            lists |-> h.lists \o [i \in 1..Len(v.groups) |-> v.groups[i].options]],
     id |-> Len(h.chains) + 1]

\* chain = copy.copy(self.chain): a dict of the receiver's own lists.
ShallowCopy(h, dict) == [h |-> h, chain |-> dict]

\* chain = copy.deepcopy(self.chain): a dict of new lists with the same
\* contents.
DeepCopy(h, dict) ==
    [h |-> [h EXCEPT !.lists = @ \o [i \in 1..Len(dict) |-> h.lists[dict[i].list]]],
     chain |-> [i \in 1..Len(dict) |->
                   [expiration |-> dict[i].expiration, list |-> Len(h.lists) + i]]]

\* What the while loop of filter_moneyness leaves in option_list.
RECURSIVE PopRest(_, _, _)
PopRest(option_list, moneyness_delta, target) ==
    IF option_list = <<>> THEN <<>>
    ELSE Bind(FracIndex(moneyness_delta, target), LAMBDA i :
              IF i = 0 THEN option_list
              ELSE Bind(<<RemoveAt(option_list, i), RemoveAt(moneyness_delta, i)>>,
                        LAMBDA t : PopRest(t[1], t[2], target)))

\* The for loop of filter_moneyness over the entries of the working dict,
\* from entry k: the pops act on the list object of the entry.
\* a = [h, results].
RECURSIVE MoneynessLoopIn(_, _, _, _)
MoneynessLoopIn(work, tgt_moneyness, k, a) ==
    IF k > Len(work) THEN a
    ELSE Bind(a.h.lists[work[k].list], LAMBDA option_list :
         Bind([i \in 1..Len(option_list) |->
                  FracAbsDiff(Moneyness(option_list[i]), tgt_moneyness)],
              LAMBDA moneyness_delta :
         IF option_list = <<>> THEN [a EXCEPT !.st = "ValueError"]
         ELSE
         Bind(FracMin(moneyness_delta), LAMBDA target :
         Bind([st |-> "ok",
               h |-> [a.h EXCEPT !.lists[work[k].list] =
                         PopRest(option_list, moneyness_delta, target)],
               results |-> PopLoop(option_list, moneyness_delta, target, a.results)],
              LAMBDA a2 : MoneynessLoopIn(work, tgt_moneyness, k + 1, a2)))))

\* A filter's return: the new chain object of the value r.ch, or the
\* exception.
Returned(h, r) ==
    IF r.st # "ok" THEN [st |-> r.st, h |-> h, id |-> 0]
    ELSE Bind(AllocChain(h, r.ch), LAMBDA n : [st |-> "ok", h |-> n.h, id |-> n.id])

\* OptionChain.filter_type, filter_expiry, filter_dte on the chain object c:
\* they read self.chain and fill a new chain.
FilterTypeIn(h, c, opt_type) == Returned(h, filter_type(View(h, c), opt_type))

FilterExpiryIn(h, c, expiry) == Returned(h, filter_expiry(View(h, c), expiry))

FilterDteIn(h, c, dte) == Returned(h, filter_dte(View(h, c), dte))

\* OptionChain.filter_moneyness on the chain object c.
FilterMoneynessIn(h, c, tgt_moneyness) ==
    Bind(DeepCopy(h, h.chains[c].chain), LAMBDA w :
    Bind(MoneynessLoopIn(w.chain, tgt_moneyness, 1,
                         [st |-> "ok", h |-> w.h, results |-> <<>>]), LAMBDA a :
    IF a.st # "ok" THEN [st |-> a.st, h |-> a.h, id |-> 0]
    ELSE Returned(a.h, AddAll(NewChain(h.chains[c].ticker, h.chains[c].quote_date),
                              a.results))))

\* OptionChain.get_option on the chain object c.
GetOptionIn(h, c, expiry, opt_type, moneyness) ==
    Bind(FilterTypeIn(h, c, opt_type), LAMBDA r1 :
    IF r1.st # "ok" THEN [st |-> r1.st, h |-> r1.h, opt |-> None]
    ELSE
    Bind(FilterMoneynessIn(r1.h, r1.id, moneyness), LAMBDA r2 :
    IF r2.st # "ok" THEN [st |-> r2.st, h |-> r2.h, opt |-> None]
    ELSE
    Bind(IF expiry.int THEN FilterDteIn(r2.h, r2.id, expiry.v)
         ELSE FilterExpiryIn(r2.h, r2.id, expiry.v), LAMBDA r3 :
    IF r3.st # "ok" THEN [st |-> r3.st, h |-> r3.h, opt |-> None]
    ELSE [st |-> "ok", h |-> r3.h, opt |-> View(r3.h, r3.id).groups[1].options[1]])))

\* ------------------------------------- the specification of chain objects
\* How many contracts the first chain holds at most.
MaxHeld == 2

\* The contracts of the chain "AMZN" of date 1.
Contracts ==
    {Option("amzn", 1, e, k, ty, 1, 3, u, [g \in Greeks |-> 1]) :
        e \in Expirations, k \in Strikes, ty \in OptTypes, u \in Underlyings}

\* One chain object, filled with up to MaxHeld contracts; `chain` keeps its
\* value as built.
ObjectInit ==
    /\ \E n \in 0..MaxHeld :
       \E options \in [1..n -> Contracts] :
          /\ chain = AddAll(NewChain("amzn", 1), options).ch
          /\ heap = AllocChain(NoHeap, chain).h
    /\ result = None
    /\ call = [op |-> "init"]
    /\ raised = "none"
    /\ queried = FALSE
    /\ StratIdle

\* ret = recv.<filter>(arg) on any chain object: r = [st, h, id].
FilterOn(op, recv, arg, r) ==
    /\ ncalls < MaxCalls
    /\ ncalls' = ncalls + 1
    /\ call' = [op |-> op, recv |-> recv, arg |-> arg, before |-> heap, st |-> r.st,
                ret |-> r.id]
    /\ heap' = r.h
    /\ raised' = IF r.st = "ok" THEN "none" ELSE r.st
    /\ UNCHANGED <<chain, result, queried, loader, leg, pds, ret, gens>>

FilterTypeOn ==
    \E recv \in 1..Len(heap.chains), ty \in OptTypes :
        FilterOn("filter_type", recv, ty, FilterTypeIn(heap, recv, ty))

FilterExpiryOn ==
    \E recv \in 1..Len(heap.chains), e \in ExpiryDates :
        FilterOn("filter_expiry", recv, e, FilterExpiryIn(heap, recv, e))

FilterDteOn ==
    \E recv \in 1..Len(heap.chains), n \in ExpiryOffsets :
        FilterOn("filter_dte", recv, n, FilterDteIn(heap, recv, n))

FilterMoneynessOn ==
    \E recv \in 1..Len(heap.chains), m \in Targets :
        FilterOn("filter_moneyness", recv, m, FilterMoneynessIn(heap, recv, m))

\* option = recv.get_option(expiry, opt_type, moneyness) on any chain object
GetOptionOn ==
    /\ ncalls < MaxCalls
    /\ ncalls' = ncalls + 1
    /\ \E recv \in 1..Len(heap.chains), e \in ExpiryArgs, ty \in OptTypes, m \in Targets :
       \E r \in {GetOptionIn(heap, recv, e, ty, m)} :
          /\ call' = [op |-> "get_option", recv |-> recv, arg |-> <<e, ty, m>>,
                      before |-> heap, st |-> r.st, ret |-> 0]
          /\ heap' = r.h
          /\ raised' = IF r.st = "ok" THEN "none" ELSE r.st
    /\ UNCHANGED <<chain, result, queried, loader, leg, pds, ret, gens>>

ObjectNext ==
    \/ FilterTypeOn
    \/ FilterExpiryOn
    \/ FilterDteOn
    \/ FilterMoneynessOn
    \/ GetOptionOn

SpecObjects == ObjectInit /\ [][ObjectNext]_vars

\* The list objects the dict of chain object c refers to.
ListsOf(h, c) == {h.chains[c].chain[i].list : i \in 1..Len(h.chains[c].chain)}

\* C11: a filter or get_option call leaves the receiver's expiration keys
\* and the contract sequence of each of its groups as they were (so does any
\* sequence of calls: the first chain keeps the value it was built with), and
\* a filter returns a new chain object, which is not the receiver and shares
\* no list with it.
C11_ReceiverUntouched ==
    /\ View(heap, 1) = chain
    /\ call.op # "init" =>
          /\ View(heap, call.recv) = View(call.before, call.recv)
          /\ call.op # "get_option" /\ call.st = "ok" =>
                /\ call.ret # call.recv
                /\ call.ret \notin 1..Len(call.before.chains)
                /\ ListsOf(heap, call.ret) \cap ListsOf(heap, call.recv) = {}

\* filter_moneyness has popped the nearest contracts of a group and left a
\* farther one in its working list.
C11_Witness ==
    /\ call.op = "filter_moneyness"
    /\ call.st = "ok"
    /\ Len(Flatten(View(heap, call.ret))) >= 1
    /\ Len(Flatten(View(heap, call.ret))) < Len(Flatten(View(heap, call.recv)))

\* The chain object a filter returns holds the value the filter computes
\* from the receiver's value.
ObjectsAgreeWithValues ==
    call.op \in {"filter_type", "filter_expiry", "filter_dte", "filter_moneyness"}
    /\ call.st = "ok" =>
        View(heap, call.ret) =
            (IF call.op = "filter_type" THEN filter_type(View(call.before, call.recv), call.arg)
             ELSE IF call.op = "filter_expiry"
             THEN filter_expiry(View(call.before, call.recv), call.arg)
             ELSE IF call.op = "filter_dte"
             THEN filter_dte(View(call.before, call.recv), call.arg)
             ELSE filter_moneyness(View(call.before, call.recv), call.arg)).ch

\* ------------------------------------------- more claims on Leg and PDS
\* The amount trade t of the Leg books under its price conventions, the mid
\* taken as (bid + ask) / 2.
Booked(t) ==
    get_multiplier(leg)
    * (ConventionPrice(QuotedOn(t.close, t.option), leg.close_px)
       - ConventionPrice(t.option, leg.open_px))

\* C12: with "mid" as the open or the close price convention,
\* get_realized_pnl and get_unrealized_pnl complete normally and price the
\* contract at (bid + ask) / 2: the amounts of every trade come to
\* multiplier x (close price - open price) under the conventions.
C12_MidConvention ==
    /\ ret.op \in {"realized_pnl", "unrealized_pnl"}
    /\ "mid" \in {leg.open_px, leg.close_px}
    /\ leg.trades.set
    => /\ ret.st = "ok"
       /\ \A i \in 1..Len(leg.trades.v) :
             ~Skipped(leg, leg.trades.v[i].open)
                 => LogSum(ret.log, i) = Booked(leg.trades.v[i])

\* The same for the conventions that name a quote field.
QuoteFieldConvention ==
    /\ ret.op \in {"realized_pnl", "unrealized_pnl"}
    /\ "mid" \notin {leg.open_px, leg.close_px}
    /\ leg.trades.set
    => /\ ret.st = "ok"
       /\ \A i \in 1..Len(leg.trades.v) :
             ~Skipped(leg, leg.trades.v[i].open)
                 => LogSum(ret.log, i) = Booked(leg.trades.v[i])

\* The trading dates of the PDS from the open date of a trade through its
\* close date.
Span(t) == {pds.dates[j] : j \in {k \in 1..Len(pds.dates) :
                                     t.open <= pds.dates[k] /\ pds.dates[k] <= t.close}}

\* The marks a log holds for trade i.
MarksOf(log, i) == {k \in 1..Len(log) : log[k].trade = i}

\* The marks of trade i fall on each date of the trade's span exactly once.
CoversSpan(log, i) ==
    /\ {log[k].date : k \in MarksOf(log, i)} = Span(pds.trades.v[i])
    /\ \A k, l \in MarksOf(log, i) : log[k].date = log[l].date => k = l

\* A mark of trade i wrote the capital 0.
WipedOut(log, i) == \E k \in MarksOf(log, i) : log[k].capital = 0

\* The capital column is 0 somewhere on the span of trade i.
WipedOutByCapital(i) ==
    \E j \in 1..Len(pds.dates) :
        pds.dates[j] \in Span(pds.trades.v[i]) /\ pds.capital[j].v = 0

\* C13: for every generated trade that is not stopped out, the walk of
\* get_unrealized_pnl and the walk of get_greek visit each trading date from
\* the open date through the close date once and the call finishes without
\* error, also when the close date is the last trading date.
C13_WalksFinish ==
    /\ ret.op = "pds_unrealized_pnl" /\ pds.trades.set =>
          \A i \in 1..Len(pds.trades.v) :
              ~WipedOut(ret.log, i) => ret.st = "ok" /\ CoversSpan(ret.log, i)
    /\ ret.op = "pds_greek" /\ pds.trades.set /\ pds.capital # None =>
          \A i \in 1..Len(pds.trades.v) :
              ~WipedOutByCapital(i) => ret.st = "ok" /\ CoversSpan(ret.log, i)

\* C14: once a trade is stopped out at date t before its close date,
\* get_greek adds no exposure of that trade after t: for each trade the greek
\* walk covers the dates the unrealized-PnL walk covers, and nothing but 0 is
\* added for a wiped-out position.
C14_NoExposureAfterStopOut ==
    ret.op = "pds_get_stats" /\ ret.st = "ok" =>
        \A g \in {"delta", "gamma", "theta", "vega", "rho"} :
        \A i \in 1..Len(pds.trades.v) :
            /\ {ret.log[g][k].date : k \in MarksOf(ret.log[g], i)}
                   = {ret.log["unrealized_pnl"][k].date :
                          k \in MarksOf(ret.log["unrealized_pnl"], i)}
            /\ \A e \in Range(ret.log["unrealized_pnl"]), f \in Range(ret.log[g]) :
                  StoppedOut(e) /\ e.trade = i /\ f.trade = i /\ f.date > e.date
                      => f.amount = 0

====
